---- MODULE Spec2Model ----
(***************************************************************************)
(* The two RGB evaluation scripts, src/RGB/fact_evalue.py (the fact-error  *)
(* pipeline) and src/RGB/reject_evalue.py (the answerability pipeline), as *)
(* one state machine.  A behaviour is a series of runs of one of the two   *)
(* scripts against the same three files: the evaluation input file, the    *)
(* output file of judged records and the result file of scores.  Between   *)
(* runs the environment may regenerate a prediction or remove the input    *)
(* file; during a run the judge endpoint answers each request in one of    *)
(* the ways requests.post / the server can, and the process may be         *)
(* interrupted.                                                            *)
(*                                                                         *)
(* A Python str that the scripts search with `in` (the `evaluation` text)  *)
(* is a sequence of one-character strings; `query`, `prediction` and `id`, *)
(* which are only compared and tested for emptiness, are TLA+ strings.  A  *)
(* Python dict is a record whose DOMAIN is the dict's key set.  A file is  *)
(* [exists, lines]; a line of a JSON-lines file is the dict that           *)
(* json.loads returns for it (json.dumps/json.loads is the identity on     *)
(* dicts of str and list-of-int values), or MalformedLine.                 *)
(***************************************************************************)
EXTENDS Integers, Sequences, FiniteSets, TLC

\* Bounds of the model.
MaxInput == 2      \* lines in the evaluation input file
MaxRuns == 3       \* runs of the script in one behaviour
MaxEdits == 1      \* changes the environment makes to the input file
MaxFaults == 1     \* judge requests that do not return a well-formed completion

\* "Yes, the model has identified the factual errors.": a judgment of the fact-error judge (prompt demonstration, fact_evalue.py:24)
YesIdentified ==
    << "Y", "e", "s", ",", " ", "t", "h", "e", " ", "m", "o", "d", "e", "l", " ", "h", "a",
       "s", " ", "i", "d", "e", "n", "t", "i", "f", "i", "e", "d", " ", "t", "h", "e", " ",
       "f", "a", "c", "t", "u", "a", "l", " ", "e", "r", "r", "o", "r", "s", "." >>

\* "NO, the model fail...": a negative judgment of the fact-error judge
NoFail ==
    << "N", "O", ",", " ", "t", "h", "e", " ", "m", "o", "d", "e", "l", " ", "f", "a", "i",
       "l", ".", ".", "." >>

\* "Yes.": a judgment that carries the marker "Yes" alone
YesOnly ==
    << "Y", "e", "s", "." >>

\* "No, the question is not addressed by the documents.": a judgment of the answerability judge (reject_evalue.py:15)
NotAddressed ==
    << "N", "o", ",", " ", "t", "h", "e", " ", "q", "u", "e", "s", "t", "i", "o", "n", " ",
       "i", "s", " ", "n", "o", "t", " ", "a", "d", "d", "r", "e", "s", "s", "e", "d", " ",
       "b", "y", " ", "t", "h", "e", " ", "d", "o", "c", "u", "m", "e", "n", "t", "s", "." >>

\* "Yes, the question is addressed by the documents.": a judgment of the answerability judge (reject_evalue.py:19)
YesAddressed ==
    << "Y", "e", "s", ",", " ", "t", "h", "e", " ", "q", "u", "e", "s", "t", "i", "o", "n",
       " ", "i", "s", " ", "a", "d", "d", "r", "e", "s", "s", "e", "d", " ", "b", "y", " ",
       "t", "h", "e", " ", "d", "o", "c", "u", "m", "e", "n", "t", "s", "." >>

\* "has identified"
MarkerHasIdentified ==
    << "h", "a", "s", " ", "i", "d", "e", "n", "t", "i", "f", "i", "e", "d" >>

\* "Yes"
MarkerYes ==
    << "Y", "e", "s" >>

\* "not addressed"
MarkerNotAddressed ==
    << "n", "o", "t", " ", "a", "d", "d", "r", "e", "s", "s", "e", "d" >>

\* "Error: Unexpected API response"
ErrUnexpected ==
    << "E", "r", "r", "o", "r", ":", " ", "U", "n", "e", "x", "p", "e", "c", "t", "e", "d",
       " ", "A", "P", "I", " ", "r", "e", "s", "p", "o", "n", "s", "e" >>

\* "Error: Invalid JSON response"
ErrInvalidJSON ==
    << "E", "r", "r", "o", "r", ":", " ", "I", "n", "v", "a", "l", "i", "d", " ", "J", "S",
       "O", "N", " ", "r", "e", "s", "p", "o", "n", "s", "e" >>

\* "Error: HTTP Error - "
ErrHTTP ==
    << "E", "r", "r", "o", "r", ":", " ", "H", "T", "T", "P", " ", "E", "r", "r", "o", "r",
       " ", "-", " " >>

\* "Error: Connection Error - "
ErrConnection ==
    << "E", "r", "r", "o", "r", ":", " ", "C", "o", "n", "n", "e", "c", "t", "i", "o", "n",
       " ", "E", "r", "r", "o", "r", " ", "-", " " >>

\* "Error: Timeout Error - "
ErrTimeout ==
    << "E", "r", "r", "o", "r", ":", " ", "T", "i", "m", "e", "o", "u", "t", " ", "E", "r",
       "r", "o", "r", " ", "-", " " >>

\* "Error: Request Exception - "
ErrRequestException ==
    << "E", "r", "r", "o", "r", ":", " ", "R", "e", "q", "u", "e", "s", "t", " ", "E", "x",
       "c", "e", "p", "t", "i", "o", "n", " ", "-", " " >>

\* "Error: Request failed - "
ErrRequestFailed ==
    << "E", "r", "r", "o", "r", ":", " ", "R", "e", "q", "u", "e", "s", "t", " ", "f", "a",
       "i", "l", "e", "d", " ", "-", " " >>

\* "Error: JSON decode error - "
ErrJSONDecode ==
    << "E", "r", "r", "o", "r", ":", " ", "J", "S", "O", "N", " ", "d", "e", "c", "o", "d",
       "e", " ", "e", "r", "r", "o", "r", " ", "-", " " >>

\* "Error: KeyError in API response - "
ErrKeyError ==
    << "E", "r", "r", "o", "r", ":", " ", "K", "e", "y", "E", "r", "r", "o", "r", " ", "i",
       "n", " ", "A", "P", "I", " ", "r", "e", "s", "p", "o", "n", "s", "e", " ", "-", " " >>

\* "500 Server Error": str() of the HTTPError raised by raise_for_status
MsgHTTP ==
    << "5", "0", "0", " ", "S", "e", "r", "v", "e", "r", " ", "E", "r", "r", "o", "r" >>

\* "refused": str() of a ConnectionError
MsgConnection ==
    << "r", "e", "f", "u", "s", "e", "d" >>

\* "timed out": str() of a Timeout
MsgTimeout ==
    << "t", "i", "m", "e", "d", " ", "o", "u", "t" >>

\* "Invalid URL": str() of another RequestException
MsgOther ==
    << "I", "n", "v", "a", "l", "i", "d", " ", "U", "R", "L" >>

\* "Expecting value": str() of a JSON decode error
MsgJSON ==
    << "E", "x", "p", "e", "c", "t", "i", "n", "g", " ", "v", "a", "l", "u", "e" >>

\* "0": str() of KeyError(0)
MsgKey ==
    << "0" >>
-----------------------------------------------------------------------------
(* Python helpers *)

Range(s) == {s[i] : i \in DOMAIN s}

\* `m in s` for two str values.
IsSubstring(m, s) ==
    \E i \in 0..(Len(s) - Len(m)) : SubSeq(s, i + 1, i + Len(m)) = m

\* `k in d` for a dict d.
HasKey(d, k) == k \in DOMAIN d

\* The value d.get(k) compares equal to: the value, or None.
None == "<None>"
Get(d, k) == IF HasKey(d, k) THEN d[k] ELSE None

\* The value None where a str is expected (a JSON null read as the completion,
\* written back as null by json.dumps).  A str is a tuple of characters, so
\* this one-element tuple equals no str and contains no marker.
NullContent == <<None>>

\* d.get(k, default)
GetOr(d, k, default) == IF HasKey(d, k) THEN d[k] ELSE default

\* d[k] = v
SetKey(d, k, v) == [kk \in DOMAIN d \cup {k} |-> IF kk = k THEN v ELSE d[kk]]

\* A line of the input file that json.loads rejects.
MalformedLine == [malformed |-> TRUE]
IsRecord(line) == ~HasKey(line, "malformed")

NoFile == [exists |-> FALSE, lines |-> <<>>]
File(lines) == [exists |-> TRUE, lines |-> lines]

-----------------------------------------------------------------------------
(* The Judge Client: check / getdata *)

Pipelines == {"fact", "reject"}

\* Completions the judge model returns as choices[0].message.content.
Contents(p) ==
    IF p = "fact" THEN {YesIdentified, NoFail, YesOnly}
    ELSE {NotAddressed, YesAddressed, <<>>}

\* What one requests.post round trip can do other than deliver a well-formed
\* completion.  The body shapes are named by the JSON they stand for:
\*   no_choices     {}                              empty_choices  {"choices": []}
\*   no_message     {"choices": [{}]}               no_content     {"choices": [{"message": {}}]}
\*   choices_dict   {"choices": {"a": 1}}           message_null   {"choices": [{"message": null}]}
\*   content_null   {"choices": [{"message": {"content": null}}]}
\* bad_json is a 2xx body that is not JSON: Response.json() raises
\* requests.exceptions.JSONDecodeError (a RequestException) in requests >= 2.27
\* and the json module's JSONDecodeError before, so both are outcomes.
FaultKinds ==
    {"http_error", "connection_error", "timeout", "request_exception",
     "bad_json_requests", "bad_json_stdlib",
     "no_choices", "empty_choices", "no_message", "no_content",
     "choices_dict", "message_null", "content_null"}

OkReply(c) == [kind |-> "ok", content |-> c]
FaultReply(k) == [kind |-> k, content |-> <<>>]

Replies(p) == {OkReply(c) : c \in Contents(p)} \cup {FaultReply(k) : k \in FaultKinds}

\* The exception the try block of getdata raises on a reply, "none" if it
\* reaches a return statement.
TryRaises(reply) ==
    CASE reply.kind = "connection_error" -> "ConnectionError"
      [] reply.kind = "timeout" -> "Timeout"
      [] reply.kind = "request_exception" -> "RequestException"
      [] reply.kind = "http_error" -> "HTTPError"
      [] reply.kind = "bad_json_requests" -> "RequestsJSONDecodeError"
      [] reply.kind = "bad_json_stdlib" -> "JSONDecodeError"
      [] reply.kind = "choices_dict" -> "KeyError"
      [] reply.kind = "message_null" -> "TypeError"
      [] OTHER -> "none"

\* The value the try block returns when it raises nothing: the value of
\* 'content' if 'choices', choices[0], 'message' and 'content' are all there
\* (None when that value is null), the error text otherwise.
TryReturns(reply) ==
    IF reply.kind = "ok" THEN reply.content
    ELSE IF reply.kind = "content_null" THEN NullContent
    ELSE ErrUnexpected

\* str(e) of the exception caught.
ExcText(exc) ==
    CASE exc = "HTTPError" -> MsgHTTP
      [] exc = "ConnectionError" -> MsgConnection
      [] exc = "Timeout" -> MsgTimeout
      [] exc = "RequestException" -> MsgOther
      [] exc \in {"RequestsJSONDecodeError", "JSONDecodeError"} -> MsgJSON
      [] exc = "KeyError" -> MsgKey
      [] OTHER -> <<>>

Returned(v) == [raised |-> FALSE, exc |-> "none", value |-> v]
Propagated(exc) == [raised |-> TRUE, exc |-> exc, value |-> <<>>]

\* The except clauses of fact_evalue.getdata, in their order.
FactExcept(exc) ==
    CASE exc = "HTTPError" -> Returned(ErrHTTP \o ExcText(exc))
      [] exc = "ConnectionError" -> Returned(ErrConnection \o ExcText(exc))
      [] exc = "Timeout" -> Returned(ErrTimeout \o ExcText(exc))
      [] exc \in {"RequestException", "RequestsJSONDecodeError"} ->
            Returned(ErrRequestException \o ExcText(exc))
      [] exc = "JSONDecodeError" -> Returned(ErrInvalidJSON)
      [] OTHER -> Propagated(exc)

\* The except clauses of reject_evalue.getdata, in their order.
RejectExcept(exc) ==
    CASE exc \in {"HTTPError", "ConnectionError", "Timeout", "RequestException",
                  "RequestsJSONDecodeError"} ->
            Returned(ErrRequestFailed \o ExcText(exc))
      [] exc = "JSONDecodeError" -> Returned(ErrJSONDecode \o ExcText(exc))
      [] exc = "KeyError" -> Returned(ErrKeyError \o ExcText(exc))
      [] OTHER -> Propagated(exc)

getdata(p, reply) ==
    LET exc == TryRaises(reply) IN
    IF exc = "none" THEN Returned(TryReturns(reply))
    ELSE IF p = "fact" THEN FactExcept(exc) ELSE RejectExcept(exc)

\* check(question, answer, url, apikey): formats the prompt (str.format with
\* keyword arguments raises nothing) and returns what getdata returns.
check(p, question, answer, reply) == getdata(p, reply)

-----------------------------------------------------------------------------
(* The files the scripts are run on *)

Rec1 == [id |-> "1", query |-> "Q1", prediction |-> "Yes, it's wrong", label |-> <<1, 1>>]
Rec2 == [id |-> "2", query |-> "Q2", prediction |-> "I think it's correct", label |-> <<0, 1>>]
Rec2EmptyQuery == [id |-> "2", query |-> "", prediction |-> "I think it's correct", label |-> <<1>>]
Rec1NoQuery == [id |-> "1", prediction |-> "Yes, it's wrong"]

\* The lines an evaluation input file is made of.
InputLines == {Rec1, Rec2, Rec2EmptyQuery, Rec1NoQuery, MalformedLine}

\* The values the environment may change a prediction to between two runs.
Predictions == {"Yes, it's wrong", "I think it's correct", ""}

SeqsUpTo(S, n) == UNION {[1..k -> S] : k \in 0..n}

InputFiles == {NoFile} \cup {File(s) : s \in SeqsUpTo(InputLines, MaxInput)}

\* The output file before the first run: absent, or a copy of a prediction
\* record that carries no judgment yet (the case the `'evaluation' in ...`
\* tests of both scripts are written for).
InitialOutputs == {NoFile, File(<<Rec1>>)}

-----------------------------------------------------------------------------
(* The resume cache *)

EmptyDict == [k \in {} |-> None]

\* The loop that fills useddata from the lines of the output file: a later
\* line with the same id replaces an earlier one, a malformed line is skipped.
RECURSIVE LoadLines(_, _)
LoadLines(lines, used) ==
    IF lines = <<>> THEN used
    ELSE LoadLines(Tail(lines),
                   IF IsRecord(Head(lines))
                   THEN SetKey(used, Head(lines).id, Head(lines))
                   ELSE used)

\* The fill loop, were it to keep the first line of an id and ignore later ones.
RECURSIVE LoadLinesFirstWins(_, _)
LoadLinesFirstWins(lines, used) ==
    IF lines = <<>> THEN used
    ELSE LoadLinesFirstWins(Tail(lines),
                            IF IsRecord(Head(lines)) /\ Head(lines).id \notin DOMAIN used
                            THEN SetKey(used, Head(lines).id, Head(lines))
                            ELSE used)

LoadUsedDataFirstWins(file) ==
    IF file.exists THEN LoadLinesFirstWins(file.lines, EmptyDict) ELSE EmptyDict

\* `if os.path.exists(outputfile):` and the loop under it.
LoadUsedData(file) == IF file.exists THEN LoadLines(file.lines, EmptyDict) ELSE EmptyDict

\* The condition under which the loop reuses the cached record for `data`.
FactReusable(used, data) == data.id \in DOMAIN used

RejectReusableIdOnly(used, data) == data.id \in DOMAIN used

RejectReusable(used, data) ==
    /\ data.id \in DOMAIN used
    /\ Get(data, "query") = Get(used[data.id], "query")
    /\ Get(data, "prediction") = Get(used[data.id], "prediction")
    /\ HasKey(used[data.id], "evaluation")

Reusable(p, used, data) ==
    IF p = "fact" THEN FactReusable(used, data) ELSE RejectReusable(used, data)

-----------------------------------------------------------------------------
(* One iteration of the processing loop, as a function of what it reads *)

NoReply == [kind |-> "none", content |-> <<>>]
NoCall == [raised |-> FALSE, exc |-> "none", value |-> <<>>]
BothBound == {"question", "answer"}

\* What an iteration does: the record it appends to results and writes to the
\* output file (emit, at most one), the id it calls the judge for (call, at
\* most one), the names `question`/`answer` bound afterwards, the diagnostics
\* it prints, and whether it ends the process.
Effect(step, emit, call, bnd, msgs, crash, got) ==
    [step |-> step, emit |-> emit, call |-> call, bound |-> bnd, diag |-> msgs,
     crash |-> crash, got |-> got]

\* `except Exception as e:` of the loop: prints the error, then formats
\* `question` and `answer` into a second message, which raises NameError out of
\* the handler when one of them was never assigned in this process.
Handler(call, bnd, got) ==
    IF BothBound \subseteq bnd
    THEN Effect("error", <<>>, call, bnd, {"processing_error"}, FALSE, got)
    ELSE Effect("error", <<>>, call, bnd, {"processing_error"}, TRUE, got)

\* The call of check and what follows it.
Judge(p, data, question, answer, reply) ==
    LET got == check(p, question, answer, reply) IN
    IF got.raised THEN Handler(<<data.id>>, BothBound, got)
    ELSE Effect("judged", <<SetKey(data, "evaluation", got.value)>>, <<data.id>>,
                BothBound, {}, FALSE, got)

Reuse(used, data, bnd) ==
    Effect("reused", <<used[data.id]>>, <<>>, bnd, {}, FALSE, NoCall)

FactIterate(used, line, bnd, reply) ==
    IF ~IsRecord(line)
    THEN Effect("malformed", <<>>, <<>>, bnd, {"malformed_line"}, FALSE, NoCall)
    ELSE IF FactReusable(used, line) THEN Reuse(used, line, bnd)
    ELSE IF ~HasKey(line, "query") THEN Handler(<<>>, bnd, Propagated("KeyError"))
    ELSE IF ~HasKey(line, "prediction")
         THEN Handler(<<>>, bnd \cup {"question"}, Propagated("KeyError"))
    ELSE Judge("fact", line, line.query, line.prediction, reply)

RejectIterate(used, line, bnd, reply) ==
    IF ~IsRecord(line)
    THEN Effect("malformed", <<>>, <<>>, bnd, {"malformed_line"}, FALSE, NoCall)
    ELSE IF RejectReusable(used, line) THEN Reuse(used, line, bnd)
    ELSE LET question == GetOr(line, "query", "")
             answer == GetOr(line, "prediction", "")
         IN  IF question = "" \/ answer = ""
             THEN Effect("skipped", <<>>, <<>>, BothBound, {"skipped_empty"}, FALSE, NoCall)
             ELSE Judge("reject", line, question, answer, reply)

Iterate(p, used, line, bnd, reply) ==
    IF p = "fact" THEN FactIterate(used, line, bnd, reply)
    ELSE RejectIterate(used, line, bnd, reply)

\* Whether the iteration reaches the call of check.
Calls(p, used, line, bnd) == Iterate(p, used, line, bnd, NoReply).call # <<>>

-----------------------------------------------------------------------------
(* The Aggregator *)

\* `0 not in i['label'] and 1 in i['label']`, guarded by the key test.
LabelAllRelevant(i) ==
    /\ HasKey(i, "label")
    /\ 0 \notin Range(i.label)
    /\ 1 \in Range(i.label)

FactFlagged(i) ==
    /\ HasKey(i, "evaluation")
    /\ (IsSubstring(MarkerHasIdentified, i.evaluation) \/ IsSubstring(MarkerYes, i.evaluation))

RejectFlagged(i) == IsSubstring(MarkerNotAddressed, GetOr(i, "evaluation", <<>>))

\* Whether the counting loop raises TypeError: `"..." in i['evaluation']` (fact,
\* behind the key test) and `"not addressed" in i.get('evaluation', '')`
\* (reject) evaluate `str in None` for a record whose evaluation is None.
TallyRaises(rs) ==
    \E k \in DOMAIN rs : HasKey(rs[k], "evaluation") /\ rs[k].evaluation = NullContent

\* The counting loop of the fact-error script over results.
RECURSIVE FactTally(_, _)
FactTally(rs, acc) ==
    IF rs = <<>> THEN acc
    ELSE LET i == Head(rs) IN
         FactTally(Tail(rs),
                   [rejecttt |-> acc.rejecttt + (IF FactFlagged(i) THEN 1 ELSE 0),
                    correct_tt |-> acc.correct_tt
                                   + (IF FactFlagged(i) /\ LabelAllRelevant(i) THEN 1 ELSE 0),
                    tt |-> acc.tt + (IF LabelAllRelevant(i) THEN 1 ELSE 0)])

\* The counting loop of the answerability script over results.
RECURSIVE RejectTally(_, _)
RejectTally(rs, acc) ==
    IF rs = <<>> THEN acc
    ELSE LET i == Head(rs) IN
         RejectTally(Tail(rs),
                     [rejecttt |-> acc.rejecttt + (IF RejectFlagged(i) THEN 1 ELSE 0),
                      tt |-> acc.tt + (IF LabelAllRelevant(i) THEN 1 ELSE 0)])

\* len(results)
Nums(rs) == Len(rs)

\* a / b of two ints, kept as the fraction; Zero is the `else 0` of the guards.
Ratio(a, b) == [num |-> a, den |-> b]
Zero == [num |-> 0, den |-> 1]

FactScores(rs) ==
    LET t == FactTally(rs, [rejecttt |-> 0, correct_tt |-> 0, tt |-> 0]) IN
    [reject_rate |-> IF Nums(rs) > 0 THEN Ratio(t.rejecttt, Nums(rs)) ELSE Zero,
     all_rate |-> IF Nums(rs) > 0 THEN Ratio(t.tt, Nums(rs)) ELSE Zero,
     correct_rate |-> IF t.rejecttt > 0 THEN Ratio(t.correct_tt, t.rejecttt) ELSE Zero,
     tt |-> t.tt, rejecttt |-> t.rejecttt, correct_tt |-> t.correct_tt,
     nums |-> Nums(rs)]

RejectScores(rs) ==
    LET t == RejectTally(rs, [rejecttt |-> 0, tt |-> 0]) IN
    [reject_rate |-> Ratio(t.rejecttt, Nums(rs)),
     all_rate |-> Ratio(t.tt, Nums(rs)),
     tt |-> t.tt, rejecttt |-> t.rejecttt, nums |-> Nums(rs)]

ComputeScores(p, rs) == IF p = "fact" THEN FactScores(rs) ELSE RejectScores(rs)

\* Whether the run goes on to compute and save scores: `if results:` in the
\* fact-error script, the `len(results) == 0` exit in the answerability one.
HasResultsAlways(rs) == TRUE

HasResults(rs) == Len(rs) > 0

-----------------------------------------------------------------------------
(* State *)

VARIABLES
    pipeline,    \* which script the behaviour runs: "fact" or "reject"
    evaluefile,  \* the evaluation input file
    outputfile,  \* the output file as it is on disk
    resultfile,  \* the result file: <<>> if absent, else <<scores>>
    pc,          \* "idle" between runs, "loop" in the processing loop, "call" while
                 \* the loop waits in check for the judge, "scores" after the loop
    useddata,    \* the resume cache of the run: id -> cached record
    results,     \* the list `results` of the run
    pos,         \* index of the next line of the input file the loop reads
    outbuf,      \* lines written to the open output handle and not yet on disk
    bound,       \* which of the names `question`, `answer` the process has assigned
    exitkind,    \* how the latest run ended
    \* The record of the run, kept to state the properties:
    runs,        \* runs started
    edits,       \* changes made to the input file by the environment
    faults,      \* judge requests answered by a fault
    calls,       \* ids the judge was called for in this run, in order
    written,     \* what this run wrote to the output handle: [line, rec], in order
    outAtStart,  \* the output file when this run started
    lastInput,   \* the input file when this run started
    rerun,       \* this run follows a completed run over the same input file
    diag,        \* the kinds of diagnostic this run printed
    scores,      \* the scores this run computed: <<>> if none
    savedResult, \* whether this run wrote the result file
    aborted,     \* whether some run so far was cut short
    last         \* what the latest iteration of the loop did

vars == <<pipeline, evaluefile, outputfile, resultfile, pc, useddata, results, pos,
          outbuf, bound, exitkind, runs, edits, faults, calls, written, outAtStart,
          lastInput, rerun, diag, scores, savedResult, aborted, last>>

NoIteration == [line |-> 0, data |-> MalformedLine, step |-> "none", reply |-> NoReply,
                got |-> NoCall]

\* Ways a run ends without being cut short.
Completed == {"completed", "exit_noinput", "exit_noresults"}

Init ==
    /\ pipeline \in Pipelines
    /\ evaluefile \in InputFiles
    /\ outputfile \in InitialOutputs
    /\ resultfile = <<>>
    /\ pc = "idle"
    /\ useddata = EmptyDict
    /\ results = <<>>
    /\ pos = 1
    /\ outbuf = <<>>
    /\ bound = {}
    /\ exitkind = "none"
    /\ runs = 0 /\ edits = 0 /\ faults = 0
    /\ calls = <<>> /\ written = <<>>
    /\ outAtStart = outputfile
    /\ lastInput = evaluefile
    /\ rerun = FALSE
    /\ diag = {}
    /\ scores = <<>>
    /\ savedResult = FALSE
    /\ aborted = FALSE
    /\ last = NoIteration

-----------------------------------------------------------------------------
(* A run of the script *)

\* open(outputfile, 'w'): the file exists and is empty from here on.
OpenTruncate(file) == File(<<>>)
\* open(outputfile, 'a'): the file exists, with the lines it had.
OpenAppend(file) == File(file.lines)

\* What opening the output file does to it, per script.
OpenOutput(p, file) == IF p = "fact" THEN OpenTruncate(file) ELSE OpenAppend(file)

\* The buffered lines reach the disk (flush or close of the handle).
Flushed(file, buf) == File(file.lines \o buf)

EvalFileExistsAlways(file) == TRUE

\* os.path.exists(evaluefile)
EvalFileExists(file) == file.exists

\* Process start up to the first iteration of the loop: load the cache from
\* the output file, test the input file, open the output file.  The fact-error
\* script opens (and so truncates) the output file before it tests the input
\* file; the answerability script exits on a missing input file before opening.
StartRun ==
    /\ pc = "idle"
    /\ runs < MaxRuns
    /\ runs' = runs + 1
    /\ useddata' = LoadUsedData(outputfile)
    /\ results' = <<>>
    /\ pos' = 1
    /\ outbuf' = <<>>
    /\ bound' = {}
    /\ calls' = <<>>
    /\ written' = <<>>
    /\ outAtStart' = outputfile
    /\ lastInput' = evaluefile
    /\ rerun' = (runs > 0 /\ exitkind \in Completed /\ evaluefile = lastInput)
    /\ scores' = <<>>
    /\ savedResult' = FALSE
    /\ last' = NoIteration
    /\ IF pipeline = "fact"
       THEN /\ outputfile' = OpenOutput(pipeline, outputfile)
            /\ exitkind' = "running"
            /\ IF EvalFileExists(evaluefile)
               THEN pc' = "loop" /\ diag' = {}
               ELSE pc' = "scores" /\ diag' = {"input_missing"}
       ELSE IF EvalFileExists(evaluefile)
            THEN /\ outputfile' = OpenOutput(pipeline, outputfile)
                 /\ exitkind' = "running"
                 /\ pc' = "loop" /\ diag' = {}
            ELSE /\ outputfile' = outputfile
                 /\ exitkind' = "exit_noinput"
                 /\ pc' = "idle" /\ diag' = {"input_missing"}
    /\ UNCHANGED <<pipeline, evaluefile, resultfile, edits, faults, aborted>>

\* The state change of one iteration whose effect is eff.
Apply(eff, reply) ==
    /\ results' = results \o eff.emit
    /\ calls' = IF pc = "call" THEN calls ELSE calls \o eff.call
    /\ written' = written \o [k \in 1..Len(eff.emit) |-> [line |-> pos, rec |-> eff.emit[k]]]
    /\ bound' = eff.bound
    /\ diag' = diag \cup eff.diag
    /\ last' = [line |-> pos, data |-> evaluefile.lines[pos], step |-> eff.step,
                reply |-> IF eff.call = <<>> THEN NoReply ELSE reply, got |-> eff.got]
    /\ faults' = IF eff.call # <<>> /\ reply.kind # "ok" THEN faults + 1 ELSE faults
    /\ IF eff.crash
       THEN \* NameError leaves the with blocks, which close the output handle
            /\ outputfile' = Flushed(outputfile, outbuf \o eff.emit)
            /\ outbuf' = <<>>
            /\ pc' = "idle"
            /\ exitkind' = "nameerror"
            /\ pos' = pos
            /\ aborted' = TRUE
       ELSE /\ outbuf' = outbuf \o eff.emit
            /\ pos' = pos + 1
            /\ pc' = "loop"
            /\ UNCHANGED <<outputfile, exitkind, aborted>>
    /\ UNCHANGED <<pipeline, evaluefile, resultfile, useddata, runs, edits, outAtStart,
                   lastInput, rerun, scores, savedResult>>

\* One iteration of `for line in f2` / `for line in f_in` that does not reach
\* the call of check: a malformed line, a reused record, a skipped record, a
\* missing key.
ProcessLine ==
    /\ pc = "loop"
    /\ pos <= Len(evaluefile.lines)
    /\ ~Calls(pipeline, useddata, evaluefile.lines[pos], bound)
    /\ Apply(Iterate(pipeline, useddata, evaluefile.lines[pos], bound, NoReply), NoReply)

\* An iteration that reaches the call of check, up to the request: question
\* and answer are assigned, requests.post is entered, and the process waits.
SendRequest ==
    /\ pc = "loop"
    /\ pos <= Len(evaluefile.lines)
    /\ Calls(pipeline, useddata, evaluefile.lines[pos], bound)
    /\ pc' = "call"
    /\ calls' = calls \o <<evaluefile.lines[pos].id>>
    /\ bound' = BothBound
    /\ UNCHANGED <<pipeline, evaluefile, outputfile, resultfile, useddata, results, pos,
                   outbuf, exitkind, runs, edits, faults, written, outAtStart, lastInput,
                   rerun, diag, scores, savedResult, aborted, last>>

\* The rest of that iteration: the round trip ends, getdata returns or raises,
\* and the loop stores the judgment or handles the exception.
ReceiveReply ==
    /\ pc = "call"
    /\ \E reply \in Replies(pipeline) :
          /\ reply.kind = "ok" \/ faults < MaxFaults
          /\ Apply(Iterate(pipeline, useddata, evaluefile.lines[pos], bound, reply), reply)

\* The buffer of the output handle is written out while the loop runs.
Flush ==
    /\ pc = "loop"
    /\ outbuf # <<>>
    /\ outputfile' = Flushed(outputfile, outbuf)
    /\ outbuf' = <<>>
    /\ UNCHANGED <<pipeline, evaluefile, resultfile, pc, useddata, results, pos, bound,
                   exitkind, runs, edits, faults, calls, written, outAtStart, lastInput,
                   rerun, diag, scores, savedResult, aborted, last>>

\* The run is cut short inside the loop, between two iterations or while a
\* request is in flight: by an exception that unwinds the with blocks
\* (KeyboardInterrupt: the handle is closed and the buffer written), or by the
\* death of the process (the buffer is lost).
Interrupt ==
    /\ pc \in {"loop", "call"}
    /\ \E unwinds \in BOOLEAN :
          outputfile' = IF unwinds THEN Flushed(outputfile, outbuf) ELSE outputfile
    /\ outbuf' = <<>>
    /\ pc' = "idle"
    /\ exitkind' = "interrupted"
    /\ aborted' = TRUE
    /\ UNCHANGED <<pipeline, evaluefile, resultfile, useddata, results, pos, bound,
                   runs, edits, faults, calls, written, outAtStart, lastInput, rerun,
                   diag, scores, savedResult, last>>

\* The input file is exhausted: the with blocks end and close the handle.
FinishLoop ==
    /\ pc = "loop"
    /\ pos > Len(evaluefile.lines)
    /\ outputfile' = Flushed(outputfile, outbuf)
    /\ outbuf' = <<>>
    /\ pc' = "scores"
    /\ UNCHANGED <<pipeline, evaluefile, resultfile, useddata, results, pos, bound,
                   exitkind, runs, edits, faults, calls, written, outAtStart, lastInput,
                   rerun, diag, scores, savedResult, aborted, last>>

\* The code after the loop: with results, compute the scores and dump them to
\* the result file, unless the counting loop raises TypeError, which ends the
\* process before any score is computed or saved; without results, print the
\* diagnostic (and, in the answerability script, exit).
Aggregate ==
    /\ pc = "scores"
    /\ pc' = "idle"
    /\ IF HasResults(results) /\ TallyRaises(results)
       THEN /\ scores' = <<>>
            /\ resultfile' = resultfile
            /\ savedResult' = FALSE
            /\ exitkind' = "typeerror"
            /\ diag' = diag
            /\ aborted' = TRUE
       ELSE IF HasResults(results)
       THEN /\ scores' = <<ComputeScores(pipeline, results)>>
            /\ resultfile' = scores'
            /\ savedResult' = TRUE
            /\ exitkind' = "completed"
            /\ diag' = diag
            /\ aborted' = aborted
       ELSE /\ scores' = <<>>
            /\ resultfile' = resultfile
            /\ savedResult' = FALSE
            /\ exitkind' = IF pipeline = "fact" THEN "completed" ELSE "exit_noresults"
            /\ diag' = diag \cup {"no_results"}
            /\ aborted' = aborted
    /\ UNCHANGED <<pipeline, evaluefile, outputfile, useddata, results, pos, outbuf,
                   bound, runs, edits, faults, calls, written, outAtStart, lastInput,
                   rerun, last>>

-----------------------------------------------------------------------------
(* The environment between runs; only a change a later run can see is taken *)

\* A prediction of the input file is regenerated.
EditPrediction ==
    /\ pc = "idle"
    /\ runs < MaxRuns
    /\ edits < MaxEdits
    /\ evaluefile.exists
    /\ \E i \in 1..Len(evaluefile.lines), a \in Predictions :
          /\ IsRecord(evaluefile.lines[i])
          /\ Get(evaluefile.lines[i], "prediction") # a
          /\ evaluefile' = File([evaluefile.lines EXCEPT ![i] = SetKey(@, "prediction", a)])
    /\ edits' = edits + 1
    /\ UNCHANGED <<pipeline, outputfile, resultfile, pc, useddata, results, pos, outbuf,
                   bound, exitkind, runs, faults, calls, written, outAtStart, lastInput,
                   rerun, diag, scores, savedResult, aborted, last>>

\* The input file is removed.
RemoveInput ==
    /\ pc = "idle"
    /\ runs < MaxRuns
    /\ edits < MaxEdits
    /\ evaluefile.exists
    /\ evaluefile' = NoFile
    /\ edits' = edits + 1
    /\ UNCHANGED <<pipeline, outputfile, resultfile, pc, useddata, results, pos, outbuf,
                   bound, exitkind, runs, faults, calls, written, outAtStart, lastInput,
                   rerun, diag, scores, savedResult, aborted, last>>

Next ==
    \/ StartRun
    \/ ProcessLine
    \/ SendRequest
    \/ ReceiveReply
    \/ Flush
    \/ Interrupt
    \/ FinishLoop
    \/ Aggregate
    \/ EditPrediction
    \/ RemoveInput

Spec == Init /\ [][Next]_vars

-----------------------------------------------------------------------------
(* Properties *)

\* The records among the lines of a file have pairwise distinct ids.
DistinctIds(lines) ==
    \A i, j \in DOMAIN lines :
        (i # j /\ IsRecord(lines[i]) /\ IsRecord(lines[j])) => lines[i].id # lines[j].id

\* A line that is a judged record.
Judged(line) == IsRecord(line) /\ HasKey(line, "evaluation")

\* The judged records among the lines of a file, as a set and in order.
Judgments(lines) == {r \in Range(lines) : Judged(r)}
JudgedLines(lines) == SelectSeq(lines, Judged)

\* An input line that parses as JSON with id, query and prediction.
FullRecord(line) ==
    IsRecord(line) /\ HasKey(line, "id") /\ HasKey(line, "query") /\ HasKey(line, "prediction")

\* The records this run wrote, in order.
WrittenRecs == [k \in DOMAIN written |-> written[k].rec]

\* Text m occurs in text e, position by position.
ContainsText(e, m) ==
    \E i \in 1..Len(e) :
        /\ i + Len(m) - 1 <= Len(e)
        /\ \A k \in 1..Len(m) : e[i + k - 1] = m[k]

\* The record carries a judgment with the marker of pipeline p.
CarriesMarker(p, rec) ==
    /\ HasKey(rec, "evaluation")
    /\ IF p = "fact"
       THEN ContainsText(rec.evaluation, MarkerHasIdentified)
            \/ ContainsText(rec.evaluation, MarkerYes)
       ELSE ContainsText(rec.evaluation, MarkerNotAddressed)

\* A rate lies in [0,1].
InUnit(r) == r.den > 0 /\ 0 <= r.num /\ r.num <= r.den

\* The latest run reached the code after the loop and ended there.
RanToEnd == pc = "idle" /\ runs > 0 /\ exitkind \in {"completed", "exit_noresults"}

\* C1: a run that follows a completed run over the same input file and the
\* same output file makes no call to the judge, for any id.
C1_RerunMakesNoCall == rerun => calls = <<>>

\* C2: after runs that all completed over an input file with pairwise distinct
\* ids, no two judged records of the output file carry the same id.
C2_OutputIdsUnique ==
    (pc = "idle" /\ runs > 0 /\ ~aborted /\ edits = 0 /\ DistinctIds(lastInput.lines))
        => DistinctIds(JudgedLines(outputfile.lines))

\* C3: when a run is interrupted in its loop, every judgment that was in the
\* output file when the run started or is in it at the interruption is in the
\* output file afterwards, and the next run's resume cache has an entry for it.
C3_InterruptKeepsJudgments ==
    [][(pc \in {"loop", "call"} /\ pc' = "idle" /\ exitkind' = "interrupted")
          => \A rec \in Judgments(outAtStart.lines) \cup Judgments(outputfile.lines) :
                /\ rec \in Range(outputfile'.lines)
                /\ rec.id \in DOMAIN LoadUsedData(outputfile')]_vars

\* C4: a run whose input file does not exist reports it, calls the judge for
\* nothing, writes no line to the output file and writes no result file.
C4_MissingInputDoesNothing ==
    (runs > 0 /\ ~lastInput.exists) =>
        /\ "input_missing" \in diag
        /\ pc \notin {"loop", "call"}
        /\ calls = <<>>
        /\ results = <<>>
        /\ written = <<>> /\ outbuf = <<>>
        /\ outputfile.lines \in {<<>>, outAtStart.lines}
        /\ scores = <<>> /\ ~savedResult

\* C4 happens: a second run finds the input file gone, after a first run that
\* saved scores, and has ended.
C4_Witness ==
    /\ runs > 1 /\ ~lastInput.exists
    /\ pc = "idle" /\ exitkind \in Completed
    /\ resultfile # <<>>

\* C5: a run whose input file does not exist leaves a pre-existing output file,
\* with the judgments earlier runs stored in it, as it was.
C5_MissingInputKeepsOutput ==
    (runs > 0 /\ ~lastInput.exists /\ Judgments(outAtStart.lines) # {})
        => outputfile = outAtStart

\* The condition C6 gives for reuse, and the one the amended claim gives.
C6_Matches(data) ==
    /\ data.id \in DOMAIN useddata
    /\ Get(data, "query") = Get(useddata[data.id], "query")
    /\ Get(data, "prediction") = Get(useddata[data.id], "prediction")

C6_HasJudgment(data) == "evaluation" \in DOMAIN useddata[data.id]

C6_NoText(data, k) == k \notin DOMAIN data \/ data[k] = ""

\* C6 as claimed: in the answerability pipeline a record is reused only if the
\* cache matches it on id, query and prediction with a non-empty evaluation,
\* and is otherwise judged by a fresh call.
C6_ReuseNeedsNonEmptyEvaluation ==
    (pipeline = "reject" /\ last.step # "none" /\ IsRecord(last.data)) =>
        LET ok == /\ C6_Matches(last.data)
                  /\ C6_HasJudgment(last.data)
                  /\ useddata[last.data.id].evaluation # <<>>
        IN  /\ last.step = "reused" => ok
            /\ ~ok => last.reply.kind # "none"

\* C6 amended: in the answerability pipeline a record is reused, without a call,
\* exactly when the cache matches it on id, query and prediction and the cached
\* record has an evaluation key, whatever its text; any other record is judged
\* by a fresh call, unless its query or prediction is empty or missing, in which
\* case it is skipped without a call.
C6_ReuseNeedsEvaluationKey ==
    (pipeline = "reject" /\ last.step # "none" /\ IsRecord(last.data)) =>
        LET ok == C6_Matches(last.data) /\ C6_HasJudgment(last.data)
            blank == C6_NoText(last.data, "query") \/ C6_NoText(last.data, "prediction")
        IN  /\ last.step = "reused" <=> ok
            /\ ok => /\ last.reply.kind = "none"
                     /\ results[Len(results)] = useddata[last.data.id]
            /\ (~ok /\ blank) => last.step = "skipped" /\ last.reply.kind = "none"
            /\ (~ok /\ ~blank) => last.reply.kind # "none" /\ last.data.id \in Range(calls)

\* C6 happens: a cached record whose evaluation is the empty text was reused.
C6_Witness ==
    /\ pipeline = "reject" /\ last.step = "reused"
    /\ useddata[last.data.id].evaluation = <<>>

\* C7: every judge call that meets a failure returns a text to the loop, which
\* stores it as the record's evaluation, appends the record to results and to
\* the output, and goes on.
C7_FailedCallIsStored ==
    last.reply.kind \in FaultKinds =>
        /\ ~last.got.raised
        /\ last.step = "judged"
        /\ exitkind = "running" \/ pos > last.line
        /\ results # <<>>
        /\ results[Len(results)] = SetKey(last.data, "evaluation", last.got.value)
        /\ written # <<>>
        /\ written[Len(written)] = [line |-> last.line, rec |-> results[Len(results)]]

\* The part of C8 about the rates that were computed.
C8_RatesInUnit ==
    scores # <<>> =>
        LET s == scores[1] IN
        /\ results # <<>> /\ s.nums > 0
        /\ 0 <= s.rejecttt /\ s.rejecttt <= s.nums
        /\ 0 <= s.tt /\ s.tt <= s.nums
        /\ s.reject_rate.num = s.rejecttt /\ s.reject_rate.den = s.nums
        /\ s.all_rate.num = s.tt /\ s.all_rate.den = s.nums
        /\ InUnit(s.reject_rate) /\ InUnit(s.all_rate)

\* C8 as claimed: the rates are in [0,1], and a run that ends with empty
\* results has computed rates that are both 0.
C8_EmptyResultsGiveZeroRates ==
    /\ C8_RatesInUnit
    /\ (RanToEnd /\ results = <<>>) =>
           /\ scores # <<>>
           /\ scores[1].reject_rate.num = 0
           /\ scores[1].all_rate.num = 0

\* C8 amended: the rates are in [0,1] whenever they are computed, and a run
\* that ends with empty results ends normally, prints the diagnostic, computes
\* no rates and writes no result file.
C8_EmptyResultsGiveNoScores ==
    /\ C8_RatesInUnit
    /\ (RanToEnd /\ results = <<>>) =>
           /\ "no_results" \in diag
           /\ scores = <<>> /\ ~savedResult

\* C8 happens: a run over an existing input file ended with empty results.
C8_Witness ==
    /\ RanToEnd /\ results = <<>>
    /\ lastInput.exists /\ lastInput.lines # <<>>

\* The latest run left its loop, went through the code after it and has ended.
C9_RunEnded == pc = "idle" /\ exitkind \in {"completed", "exit_noresults", "typeerror"}

\* C9: a run that judged records, fresh or reused, and has ended after its
\* loop has computed scores; the scores of a run have nums = the number of
\* records the run judged and rejecttt = the number of those whose evaluation
\* holds the marker of the pipeline; the fact-error run whose two judgments
\* are "Yes, the model has identified the factual errors." and "NO, the model
\* fail..." has rejecttt = 1, nums = 2 and reject_rate = 1/2.
C9_CountsMatchJudgments ==
    /\ (C9_RunEnded /\ written # <<>>) => scores # <<>>
    /\ scores # <<>> =>
        LET s == scores[1] IN
        /\ s.nums = Len(written)
        /\ s.nums = Cardinality({i \in 1..Len(lastInput.lines) :
                                    \E k \in DOMAIN written : written[k].line = i})
        /\ s.rejecttt = Cardinality({k \in DOMAIN written :
                                        CarriesMarker(pipeline, written[k].rec)})
        /\ (/\ pipeline = "fact"
            /\ Len(written) = 2
            /\ Judged(written[1].rec) /\ written[1].rec.evaluation = YesIdentified
            /\ Judged(written[2].rec) /\ written[2].rec.evaluation = NoFail)
               => /\ s.rejecttt = 1 /\ s.nums = 2
                  /\ 2 * s.reject_rate.num = s.reject_rate.den

\* C10: when the loop of a run is over, each input line with id, query and
\* prediction has exactly one record in results and one line written to the
\* output file by this run, in the order of the input file.  Stated for the
\* runs in which every judge request returned a completion, the runs that the
\* failure of C7 does not touch.
C10_EachRecordJudgedOnce ==
    (pc = "scores" /\ lastInput.exists /\ faults = 0) =>
        /\ \A i \in DOMAIN lastInput.lines :
              FullRecord(lastInput.lines[i]) =>
                  Cardinality({k \in DOMAIN written : written[k].line = i}) = 1
        /\ \A k \in DOMAIN written : written[k].rec.id = lastInput.lines[written[k].line].id
        /\ \A k, l \in DOMAIN written : k < l => written[k].line < written[l].line
        /\ results = WrittenRecs
        /\ outputfile.lines =
              (IF pipeline = "fact" THEN <<>> ELSE outAtStart.lines) \o WrittenRecs

\* Records r1 and r2 are judgments of one id for different query or prediction.
C11_Rejudged(r1, r2) ==
    /\ Judged(r1) /\ Judged(r2)
    /\ r1.id = r2.id
    /\ (Get(r1, "query") # Get(r2, "query") \/ Get(r1, "prediction") # Get(r2, "prediction"))

\* Line j is the last line of its id in lines.
C11_LastOfItsId(lines, j) ==
    \A k \in DOMAIN lines : (k > j /\ IsRecord(lines[k])) => lines[k].id # lines[j].id

\* The input file holds the id of rec with the query and prediction of rec.
C11_InputHas(rec) ==
    \E n \in DOMAIN lastInput.lines :
        /\ IsRecord(lastInput.lines[n])
        /\ lastInput.lines[n].id = rec.id
        /\ Get(lastInput.lines[n], "query") = Get(rec, "query")
        /\ Get(lastInput.lines[n], "prediction") = Get(rec, "prediction")

\* C11: in the answerability script, a third or later run that follows a
\* completed run over the same input file (ids pairwise distinct) and starts
\* from an output file in which an id has an earlier judgment and, as the last
\* line of the id, a later judgment made for the query and prediction the
\* input file now holds, makes no judge call for the id, and the iteration
\* that reads the id reuses and writes the later record, not the earlier one.
C11_LastLineWins ==
    (pipeline = "reject" /\ runs >= 3 /\ rerun /\ DistinctIds(lastInput.lines)) =>
        \A i, j \in DOMAIN outAtStart.lines :
            LET old == outAtStart.lines[i]
                new == outAtStart.lines[j]
            IN  (/\ i < j
                 /\ C11_Rejudged(old, new)
                 /\ C11_LastOfItsId(outAtStart.lines, j)
                 /\ C11_InputHas(new)) =>
                    /\ new.id \notin Range(calls)
                    /\ (last.step # "none" /\ IsRecord(last.data) /\ last.data.id = new.id) =>
                           /\ last.step = "reused"
                           /\ written # <<>>
                           /\ written[Len(written)] = [line |-> last.line, rec |-> new]

\* C11 happens: the first run judged an id, the prediction changed, the second
\* run judged the id again with another judgment, and the third run, over the
\* input file of the second, has reused the record of the second run.
C11_Witness ==
    /\ pipeline = "reject" /\ runs = 3 /\ rerun /\ edits = 1 /\ ~aborted
    /\ DistinctIds(lastInput.lines)
    /\ last.step = "reused" /\ calls = <<>>
    /\ Len(outAtStart.lines) = 2
    /\ C11_Rejudged(outAtStart.lines[1], outAtStart.lines[2])
    /\ outAtStart.lines[1].evaluation # outAtStart.lines[2].evaluation
    /\ C11_InputHas(outAtStart.lines[2])
    /\ last.data.id = outAtStart.lines[2].id
    /\ written = <<[line |-> last.line, rec |-> outAtStart.lines[2]]>>

====
